---- MODULE Spec2Model ----
(***************************************************************************)
(* A model of src/bot.py: the per-user conversation buffer of              *)
(* SimpleSanskritBot (user_conversations), call_model with its remote call *)
(* and its except chain, clear_conversation, the telegram handlers start   *)
(* and handle_message, and the start-up path (module load, main).          *)
(*                                                                         *)
(* The Application is built with its defaults (line 158), so updates are   *)
(* processed one after the other, and call_model is a plain function that  *)
(* blocks in requests.post: one update is handled at a time.  The handling *)
(* of a question is two steps, the part up to requests.post and the part   *)
(* from its outcome on, so that the state "request in flight" is visible.  *)
(*                                                                         *)
(* Texts are ASCII here: the source's emoji prefixes of the reply texts    *)
(* and of the clear button label are left out of the string constants.     *)
(***************************************************************************)
EXTENDS Integers, Sequences, FiniteSets, TLC

VARIABLES
    api_key,             \* os.getenv("OPENROUTER_API_KEY") is set
    token,               \* os.getenv("TELEGRAM_BOT_TOKEN") is set
    pc,                  \* position of the process
    user_conversations,  \* bot.user_conversations: user id -> list of turns
    update,              \* the update being handled, or the last one handled
    request,             \* the JSON body of the requests.post made for `update`
    outcome,             \* what that requests.post / its response turned out to be
    answer,              \* the value call_model returned for `update`
    replies,             \* the bot's messages standing in the chat for `update`
    posts,               \* requests.post calls made for `update`
    appended,            \* history: every turn appended per user since the last clear
    before               \* history: the user's list when the handler was entered

vars == <<api_key, token, pc, user_conversations, update, request, outcome,
          answer, replies, posts, appended, before>>

----------------------------------------------------------------------------
(* Bounds of the model *)

\* asks are dispatched while the turns appended since the last clears
\* (all users together) leave room for one more question and answer
MaxLog == 13

Users == {1, 2}

(* Program constants *)
MAX_TURNS == 10
MAX_TOKENS == 1000

SystemPrompt == "You are a Sanskrit expert. Answer questions directly and concisely."
ModelId == "meta-llama/llama-4-maverick:free"
ClearText == "Clear Chat"
StartCommand == "/start"
ProcessingText == "Processing..."
ClearedText == "Chat cleared!"
WelcomeText == "Namaste! Welcome to Sanskrit Bot! Direct connection to Llama model. Type any question to chat!"

\* the texts each user sends besides the clear button and /start
QuestionsOf(u) == IF u = 1 THEN {"What is Sanskrit?"} ELSE {"Q"}
Answers == {"Sanskrit is a classical language."}

NoValue == "none"

----------------------------------------------------------------------------
(* Turns and the conversation store *)

Turn(role, content) == [role |-> role, content |-> content]

\* Python's s[-n:] for n > 0
SliceLast(s, n) ==
    LET start == IF Len(s) - n < 0 THEN 0 ELSE Len(s) - n
    IN  SubSeq(s, start + 1, Len(s))

\* TrimHistory with the cut left out
TrimHistory_None(h) == h

\* TrimHistory keeping the first 10 entries ([:10]) instead of the last 10
TrimHistory_KeepsFirst(h) == IF Len(h) > MAX_TURNS THEN SubSeq(h, 1, MAX_TURNS) ELSE h

\* lines 38-39
TrimHistory(h) == IF Len(h) > MAX_TURNS THEN SliceLast(h, MAX_TURNS) ELSE h

\* lines 30-31
EnsureEntry(uc, u) == IF u \in DOMAIN uc THEN uc ELSE uc @@ (u :> <<>>)

\* the role and content appended at lines 33-36
UserTurn(question) == Turn("user", question)

\* the role and content appended at lines 73-76
AssistantTurn(ans) == Turn("assistant", ans)

\* AppendQuestion writing back a list built from a stale, empty read
AppendQuestion_LostUpdate(uc, u, question) ==
    [EnsureEntry(uc, u) EXCEPT ![u] = <<UserTurn(question)>>]

\* lines 30-39: the question is appended and the list is cut to its last 10
AppendQuestion(uc, u, question) ==
    LET uc1 == EnsureEntry(uc, u)
        uc2 == [uc1 EXCEPT ![u] = Append(@, UserTurn(question))]
    IN  [uc2 EXCEPT ![u] = TrimHistory(@)]

\* AppendAnswer with the append left out
AppendAnswer_Dropped(uc, u, ans) == uc

\* lines 73-76: the answer is appended; the list is not cut here
AppendAnswer(uc, u, ans) == [uc EXCEPT ![u] = Append(@, AssistantTurn(ans))]

\* BuildMessages without the system turn
BuildMessages_NoSystem(uc, u) == uc[u]

\* lines 41-47
BuildMessages(uc, u) == <<Turn("system", SystemPrompt)>> \o uc[u]

\* StoreAfterBuild when messages is the user's own list, not a copy
StoreAfterBuild_Aliased(uc, u) ==
    [uc EXCEPT ![u] = <<Turn("system", SystemPrompt)>> \o @]

\* lines 41-47: messages is a new list and extend copies into it, so the
\* user's own list is the same after the request was built
StoreAfterBuild(uc, u) == uc

\* no request was built for the update (data, line 56, is not assigned)
NoRequest == [model |-> NoValue, messages |-> <<>>, max_tokens |-> 0]

\* lines 56-60
BuildData(uc, u) ==
    [model |-> ModelId, messages |-> BuildMessages(uc, u), max_tokens |-> MAX_TOKENS]

\* clear_conversation with the membership test inverted
clear_conversation_Inverted(uc, u) ==
    IF u \notin DOMAIN uc THEN uc @@ (u :> <<>>) ELSE uc

\* clear_conversation resetting the whole mapping
clear_conversation_All(uc, u) == [v \in DOMAIN uc |-> <<>>]

\* lines 88-91
clear_conversation(uc, u) == IF u \in DOMAIN uc THEN [uc EXCEPT ![u] = <<>>] ELSE uc

\* the list of a user, empty for a user never seen (lines 30-31 create it empty)
HistoryIn(uc, u) == IF u \in DOMAIN uc THEN uc[u] ELSE <<>>
History(u) == HistoryIn(user_conversations, u)

----------------------------------------------------------------------------
(* The remote call: what requests.post, raise_for_status and json() can do *)

\* exception classes and their bases (requests.exceptions, builtins)
Bases(exc) ==
    CASE exc = "ReadTimeout"      -> {"ReadTimeout", "Timeout", "RequestException", "Exception"}
      [] exc = "ConnectTimeout"   -> {"ConnectTimeout", "ConnectionError", "Timeout",
                                      "RequestException", "Exception"}
      [] exc = "ConnectionError"  -> {"ConnectionError", "RequestException", "Exception"}
      [] exc = "HTTPError"        -> {"HTTPError", "RequestException", "Exception"}
      [] exc = "JSONDecodeError"  -> {"JSONDecodeError", "InvalidJSONError",
                                      "RequestException", "ValueError", "Exception"}
      [] exc = "ValueError"       -> {"ValueError", "Exception"}
      [] exc = "KeyError"         -> {"KeyError", "LookupError", "Exception"}

\* str(e)
Str(exc) ==
    CASE exc = "ReadTimeout"      -> "Read timed out. (read timeout=30)"
      [] exc = "ConnectTimeout"   -> "Connection to openrouter.ai timed out. (connect timeout=30)"
      [] exc = "ConnectionError"  -> "Connection refused"
      [] exc = "HTTPError"        -> "500 Server Error"
      [] exc = "JSONDecodeError"  -> "Expecting value: line 1 column 1 (char 0)"
      [] exc = "ValueError"       -> "Expecting value: line 1 column 1 (char 0)"
      [] exc = "KeyError"         -> "'message'"

Choice(has_message, content) == [has_message |-> has_message, content |-> content]
Body(valid_json, has_choices, choices) ==
    [valid_json |-> valid_json, has_choices |-> has_choices, choices |-> choices]
Raised(exc) == [raised |-> exc, status |-> 0, body |-> Body(FALSE, FALSE, <<>>)]
Response(status, body) == [raised |-> NoValue, status |-> status, body |-> body]

\* no requests.post was made for the update (response, line 62, is not assigned)
NoOutcome == Raised(NoValue)

\* what lines 62-67 can end with: an exception of requests.post or a response
PostOutcomes ==
    {Raised(e) : e \in {"ReadTimeout", "ConnectTimeout", "ConnectionError"}}
    \cup {Response(500, Body(TRUE, FALSE, <<>>))}
    \cup {Response(200, Body(FALSE, FALSE, <<>>)),
          Response(200, Body(TRUE, FALSE, <<>>)),
          Response(200, Body(TRUE, TRUE, <<>>)),
          Response(200, Body(TRUE, TRUE, <<Choice(FALSE, NoValue)>>))}
    \cup {Response(200, Body(TRUE, TRUE, <<Choice(TRUE, a)>>)) : a \in Answers}

\* what response.json() raises on a body that is not JSON: requests' own
\* JSONDecodeError (a RequestException) or, before requests 2.27, a ValueError
JsonErrors == {"JSONDecodeError", "ValueError"}

\* RaisedBy without response.raise_for_status()
RaisedBy_NoRaiseForStatus(o, jsonerr) ==
    IF o.raised # NoValue THEN o.raised
    ELSE IF ~o.body.valid_json THEN jsonerr
    ELSE IF o.body.has_choices /\ Len(o.body.choices) > 0
            /\ ~o.body.choices[1].has_message THEN "KeyError"
    ELSE NoValue

\* lines 62-72 up to the first exception: the exception raised, or NoValue
RaisedBy(o, jsonerr) ==
    IF o.raised # NoValue THEN o.raised                          \* line 62
    ELSE IF ~(o.status \in 200..299) THEN "HTTPError"            \* line 68
    ELSE IF ~o.body.valid_json THEN jsonerr                      \* line 69
    ELSE IF o.body.has_choices /\ Len(o.body.choices) > 0
            /\ ~o.body.choices[1].has_message THEN "KeyError"    \* line 72
    ELSE NoValue

\* line 71
HasChoice(o) == o.body.has_choices /\ Len(o.body.choices) > 0

\* ExceptClause with the RequestException clause written before the Timeout clause
ExceptClause_RequestExceptionFirst(exc) ==
    IF "RequestException" \in Bases(exc) THEN "RequestException"
    ELSE IF "Timeout" \in Bases(exc) THEN "Timeout"
    ELSE "Exception"

\* lines 81-86: the first except clause that matches
ExceptClause(exc) ==
    IF "Timeout" \in Bases(exc) THEN "Timeout"
    ELSE IF "RequestException" \in Bases(exc) THEN "RequestException"
    ELSE "Exception"

\* the text returned by each except clause (lines 82, 84, 86)
ExceptText(clause, exc) ==
    CASE clause = "Timeout"          -> "Error: Request timeout. Please try again."
      [] clause = "RequestException" -> "Error: API request failed: " \o Str(exc)
      [] clause = "Exception"        -> "Error: " \o Str(exc)

\* line 79
UnexpectedText == "Error: Unexpected API response"

\* ReturnValue when the last clause, except Exception, is missing: a KeyError
\* leaves call_model as an exception and no text is returned
ReturnValue_Propagates(o, jsonerr) ==
    LET exc == RaisedBy(o, jsonerr) IN
    IF exc # NoValue /\ ExceptClause(exc) = "Exception" THEN NoValue
    ELSE IF exc # NoValue THEN ExceptText(ExceptClause(exc), exc)
    ELSE IF HasChoice(o) THEN o.body.choices[1].content
    ELSE UnexpectedText

\* lines 68-86: the value call_model returns
ReturnValue(o, jsonerr) ==
    LET exc == RaisedBy(o, jsonerr) IN
    IF exc # NoValue THEN ExceptText(ExceptClause(exc), exc)
    ELSE IF HasChoice(o) THEN o.body.choices[1].content
    ELSE UnexpectedText

\* StoreAfter appending whatever call_model returns, error texts included
StoreAfter_AlwaysAppends(uc, u, o, jsonerr) ==
    AppendAnswer(uc, u, ReturnValue(o, jsonerr))

\* lines 71-76: the store after the outcome
StoreAfter(uc, u, o, jsonerr) ==
    IF RaisedBy(o, jsonerr) = NoValue /\ HasChoice(o)
    THEN AppendAnswer(uc, u, o.body.choices[1].content)
    ELSE uc

----------------------------------------------------------------------------
(* The process *)

TotalLog == Len(appended[1]) + Len(appended[2])

\* the texts a user sends to handle_message
InboundTexts(u) == QuestionsOf(u) \cup {ClearText}

\* CanDispatch when the next update is handled while a handler waits
CanDispatch_Concurrent(p) == p \in {"polling", "in_flight"}

\* whether the next update is handled: the Application of line 158 handles
\* one update after the other, and call_model (line 139) is a plain call
\* that blocks in requests.post, so no handler runs while one is in flight
CanDispatch(p) == p = "polling"

\* IsClearSignal when the comparison never matches
IsClearSignal_Never(text) == FALSE

\* line 132
IsClearSignal(text) == text = ClearText

\* AfterConstruct without the check of lines 20-21
AfterConstruct_NoCheck(key) == "main"

\* lines 19-21 at line 93: without the API key the constructor raises
\* ValueError at module level and the process ends with the traceback
AfterConstruct(key) == IF key THEN "main" ELSE "crashed"

\* AfterMain without the check of lines 150-152
AfterMain_NoCheck(tok) == "polling"

\* lines 149-170: without the bot token main prints the error and returns;
\* with it the health thread starts and app.run_polling() is entered
AfterMain(tok) == IF tok THEN "polling" ELSE "exited"

\* PostsAfterExcept when the Timeout clause posts the request once more
PostsAfterExcept_RetryTimeout(exc, n) ==
    IF exc \in {"ReadTimeout", "ConnectTimeout"} THEN n + 1 ELSE n

\* lines 78-86: each branch returns; none calls requests.post again
PostsAfterExcept(exc, n) == n

Init ==
    /\ api_key \in BOOLEAN
    /\ token \in BOOLEAN
    /\ pc = "import"
    /\ user_conversations = <<>>
    /\ update = [user |-> 0, text |-> NoValue]
    /\ request = NoRequest
    /\ outcome = NoOutcome
    /\ answer = NoValue
    /\ replies = <<>>
    /\ posts = 0
    /\ appended = [u \in Users |-> <<>>]
    /\ before = <<>>

\* line 93 with lines 18-25: bot = SimpleSanskritBot()
Construct ==
    /\ pc = "import"
    /\ pc' = AfterConstruct(api_key)
    /\ UNCHANGED <<api_key, token, user_conversations, update, request, outcome,
                   answer, replies, posts, appended, before>>

\* lines 147-170: main()
Main ==
    /\ pc = "main"
    /\ pc' = AfterMain(token)
    /\ UNCHANGED <<api_key, token, user_conversations, update, request, outcome,
                   answer, replies, posts, appended, before>>

\* lines 113-125: the /start command
Start(u) ==
    /\ CanDispatch(pc)
    /\ update' = [user |-> u, text |-> StartCommand]
    /\ replies' = <<WelcomeText>>
    /\ posts' = 0
    /\ request' = NoRequest
    /\ outcome' = NoOutcome
    /\ answer' = NoValue
    /\ before' = History(u)
    /\ UNCHANGED <<api_key, token, pc, user_conversations, appended>>

\* lines 127-136: handle_message with the clear button's text
HandleClear(u, text) ==
    /\ CanDispatch(pc)
    /\ IsClearSignal(text)
    /\ update' = [user |-> u, text |-> text]
    /\ user_conversations' = clear_conversation(user_conversations, u)
    /\ replies' = <<ClearedText>>
    /\ posts' = 0
    /\ appended' = [appended EXCEPT ![u] = <<>>]
    /\ request' = NoRequest
    /\ outcome' = NoOutcome
    /\ answer' = NoValue
    /\ before' = History(u)
    /\ UNCHANGED <<api_key, token, pc>>

\* lines 127-138 and call_model up to requests.post (lines 29-67)
HandleQuestion(u, text) ==
    /\ CanDispatch(pc)
    /\ ~IsClearSignal(text)
    /\ TotalLog + 2 <= MaxLog
    /\ update' = [user |-> u, text |-> text]
    /\ replies' = <<ProcessingText>>
    /\ before' = History(u)
    /\ user_conversations' =
           StoreAfterBuild(AppendQuestion(user_conversations, u, text), u)
    /\ appended' = [appended EXCEPT ![u] = Append(@, UserTurn(text))]
    /\ request' = BuildData(AppendQuestion(user_conversations, u, text), u)
    /\ posts' = 1
    /\ outcome' = NoOutcome
    /\ answer' = NoValue
    /\ pc' = "in_flight"
    /\ UNCHANGED <<api_key, token>>

\* the outcome of requests.post, the rest of call_model (lines 68-86) and
\* the rest of handle_message (lines 140-141)
HandleOutcome(o, jsonerr) ==
    /\ pc = "in_flight"
    /\ outcome' = [o EXCEPT !.raised = RaisedBy(o, jsonerr)]
    /\ user_conversations' = StoreAfter(user_conversations, update.user, o, jsonerr)
    /\ appended' = IF user_conversations' # user_conversations
                   THEN [appended EXCEPT ![update.user] =
                            Append(@, user_conversations'[update.user]
                                          [Len(user_conversations'[update.user])])]
                   ELSE appended
    /\ answer' = ReturnValue(o, jsonerr)
    /\ replies' = <<answer'>>
    /\ posts' = PostsAfterExcept(RaisedBy(o, jsonerr), posts)
    /\ pc' = "polling"
    /\ UNCHANGED <<api_key, token, update, request, before>>

Next ==
    \/ Construct
    \/ Main
    \/ \E u \in Users : Start(u)
    \/ \E u \in Users : \E text \in InboundTexts(u) : HandleClear(u, text)
    \/ \E u \in Users : \E text \in InboundTexts(u) : HandleQuestion(u, text)
    \/ \E o \in PostOutcomes : \E jsonerr \in JsonErrors : HandleOutcome(o, jsonerr)

Spec == Init /\ [][Next]_vars

\* the remote call ends: requests.post returns or raises (timeout=30, line 66),
\* and the sends of lines 140-141 succeed
SpecFair == Spec /\ WF_vars(\E o \in PostOutcomes : \E jsonerr \in JsonErrors : HandleOutcome(o, jsonerr))

----------------------------------------------------------------------------
(* Properties *)

IsSuffix(s, t) ==
    /\ Len(s) <= Len(t)
    /\ \A i \in 1..Len(s) : s[i] = t[Len(t) - Len(s) + i]

\* the most recent n entries of s, in order
KeepLast(s, n) ==
    LET k == IF Len(s) < n THEN Len(s) ELSE n
    IN  [i \in 1..k |-> s[Len(s) - k + i]]

\* call_model has returned for `update`
Answered == pc = "polling" /\ answer # NoValue

Asked == Turn("user", update.text)

TimedOut(o) == o.raised \in {"ReadTimeout", "ConnectTimeout"}
Is2xx(o) == o.status >= 200 /\ o.status <= 299
Non2xx(o) == o.status # 0 /\ ~Is2xx(o)
NoChoice(o) == ~o.body.has_choices \/ o.body.choices = <<>>
\* a 2xx response with at least one choice, the first one carrying a message content
SuccessResponse(o) ==
    /\ Is2xx(o) /\ o.body.valid_json
    /\ ~NoChoice(o) /\ o.body.choices[1].has_message

Description(o) == IF o.raised = NoValue THEN "" ELSE Str(o.raised)

KindText(kind, o) ==
    CASE kind = "Timeout"           -> "Error: Request timeout. Please try again."
      [] kind = "TransportFailure"  -> "Error: API request failed: " \o Description(o)
      [] kind = "MalformedResponse" -> "Error: Unexpected API response"
      [] kind = "Unknown"           -> "Error: " \o Description(o)
      [] kind = "Success"           -> o.body.choices[1].content

\* C1: every stored history has at most MAX_TURNS turns, after the append of
\* the user turn and after the append of the assistant turn.
C1_LengthAtMostMaxTurns == \A u \in Users : Len(History(u)) <= MAX_TURNS

\* C2: the stored history is a suffix, in insertion order, of the turns
\* appended since the last clear, and once 11 turns were appended the first
\* of them is gone while the newest is there.
C2_SuffixWithOldestDropped ==
    \A u \in Users :
        /\ IsSuffix(History(u), appended[u])
        /\ Len(appended[u]) >= MAX_TURNS + 1 =>
              /\ Len(History(u)) < Len(appended[u])
              /\ History(u)[Len(History(u))] = appended[u][Len(appended[u])]

C4_FailureKeepsOnlyQuestion ==
    (Answered /\ ~SuccessResponse(outcome)) =>
        LET h == History(update.user)
        IN  /\ h = KeepLast(before \o <<Asked>>, MAX_TURNS)
            /\ h[Len(h)] = Asked
            /\ \A i \in 1..Len(h) : h[i].content # answer

C4_Witness ==
    /\ Answered /\ ~SuccessResponse(outcome)
    /\ outcome.raised = "KeyError"
    /\ Len(before) = MAX_TURNS + 1
    /\ Len(History(update.user)) = MAX_TURNS

\* C5 as stated: on a timeout call_model returns the literal string
\* "Request timeout. Please try again." and the history ends with the user
\* turn of the question.
C5_TimeoutReturnsBareMessage ==
    (Answered /\ TimedOut(outcome)) =>
        /\ answer = "Request timeout. Please try again."
        /\ History(update.user)[Len(History(update.user))] = Asked

\* C5 amended: on a timeout call_model returns the literal string
\* "Error: Request timeout. Please try again.", and afterwards the history
\* ends with the user turn of the question, with no assistant turn after it.
C5_TimeoutReturnsErrorText ==
    (Answered /\ TimedOut(outcome)) =>
        /\ answer = "Error: Request timeout. Please try again."
        /\ History(update.user) = KeepLast(before \o <<Asked>>, MAX_TURNS)
        /\ History(update.user)[Len(History(update.user))] = Asked

C5_Witness ==
    /\ Answered /\ TimedOut(outcome)
    /\ update.text = "Q"
    /\ answer = "Error: Request timeout. Please try again."

\* the kinds the claim C6 allows for an outcome; a 2xx body that is not JSON
\* has no choices key (MalformedResponse) or is another failure (Unknown)
C6_ClaimedKinds(o) ==
    IF TimedOut(o) THEN {"Timeout"}
    ELSE IF o.raised = "ConnectionError" \/ Non2xx(o) THEN {"TransportFailure"}
    ELSE IF ~o.body.valid_json THEN {"MalformedResponse", "Unknown"}
    ELSE IF NoChoice(o) THEN {"MalformedResponse"}
    ELSE IF SuccessResponse(o) THEN {"Success"}
    ELSE {"Unknown"}

C6_AmendedKind(o) ==
    IF TimedOut(o) THEN "Timeout"
    ELSE IF o.raised = "ConnectionError" \/ Non2xx(o) THEN "TransportFailure"
    ELSE IF ~o.body.valid_json
         THEN (IF o.raised = "JSONDecodeError" THEN "TransportFailure" ELSE "Unknown")
    ELSE IF NoChoice(o) THEN "MalformedResponse"
    ELSE IF SuccessResponse(o) THEN "Success"
    ELSE "Unknown"

C7_ClearEmptiesHistory ==
    /\ (pc = "polling" /\ update.text = ClearText) => History(update.user) = <<>>
    /\ \A u \in Users :
          LET once == clear_conversation(user_conversations, u)
          IN  /\ HistoryIn(once, u) = <<>>
              /\ clear_conversation(once, u) = once

C7_Witness ==
    /\ pc = "polling" /\ update.text = ClearText
    /\ Len(before) = MAX_TURNS + 1
    /\ History(update.user) = <<>>
    /\ \E u \in Users : u \notin DOMAIN user_conversations

\* C8: the request in flight is the system turn followed by the user's
\* stored history, which is the history before the call with the question
\* appended and cut to the bound; the system turn is at position 0 only and
\* the last message is the user turn of the question.
C8_RequestIsSystemThenHistory ==
    pc = "in_flight" =>
        LET m == request.messages
            h == History(update.user)
        IN  /\ m = <<Turn("system", SystemPrompt)>> \o h
            /\ h = KeepLast(before \o <<Asked>>, MAX_TURNS)
            /\ \A i \in 2..Len(m) : m[i].role # "system"
            /\ m[Len(m)] = Asked

C8_Witness ==
    /\ pc = "in_flight"
    /\ Len(before) = MAX_TURNS + 1
    /\ Len(request.messages) = MAX_TURNS + 1

\* C9: no stored history holds a system turn: only user and assistant turns
\* are stored, and the store after the request was built holds what the
\* append of the question left.
C9_NoSystemTurnStored ==
    /\ \A u \in Users : \A i \in 1..Len(History(u)) :
          History(u)[i].role \in {"user", "assistant"}
    /\ pc = "in_flight" => IsSuffix(History(update.user), appended[update.user])

C9_Witness ==
    /\ pc = "in_flight"
    /\ Len(History(update.user)) = MAX_TURNS
    /\ \E i \in 1..MAX_TURNS : History(update.user)[i].role = "assistant"

\* a step leaves the list of every user other than the one it handles as it was
C10_Frame ==
    \A b \in Users :
        b # update'.user =>
            /\ HistoryIn(user_conversations', b) = History(b)
            /\ (b \in DOMAIN user_conversations') = (b \in DOMAIN user_conversations)

\* the request in flight holds turns appended for its own user only
C10_OwnTurnsOnly ==
    pc = "in_flight" =>
        LET m == request.messages
        IN  /\ IsSuffix(SubSeq(m, 2, Len(m)), appended[update.user])
            /\ \A i \in 2..Len(m) : \A b \in Users \ {update.user} :
                  m[i].role = "user" => m[i].content \notin QuestionsOf(b)

\* C10: an ask or a clear of one user leaves every other user's history
\* unchanged, and the request built for a user holds no turn appended for
\* another user, in every interleaving of the users' operations.
C10_UsersIndependent == [][C10_Frame]_vars /\ []C10_OwnTurnsOnly

C10_Witness ==
    /\ pc = "in_flight"
    /\ update.user = 2
    /\ Len(History(1)) >= 2
    /\ Len(request.messages) >= 4

\* some handling of an update of user b can start in this state
CanHandle(b) ==
    \/ ENABLED Start(b)
    \/ \E text \in InboundTexts(b) : ENABLED HandleClear(b, text)
    \/ \E text \in InboundTexts(b) : ENABLED HandleQuestion(b, text)

\* C11: while the remote call of one user's ask is in flight, a message of
\* another user can be handled (and complete) before that call returns.
C11_OtherUsersNotBlocked ==
    pc = "in_flight" => \E b \in Users \ {update.user} : CanHandle(b)

Smaller(a, b) == IF a < b THEN a ELSE b

\* a step changes a user's list by one whole mutation or not at all
C12_Step ==
    \A u \in Users :
        LET h == History(u)
            h2 == HistoryIn(user_conversations', u)
        IN  \/ h2 = h
            \/ h2 = <<>>
            \/ \E q \in InboundTexts(u) : h2 = KeepLast(h \o <<Turn("user", q)>>, MAX_TURNS)
            \/ \E a \in Answers : h2 = h \o <<Turn("assistant", a)>>

\* no appended turn is lost except to the cut from the front
C12_NothingLost ==
    \A u \in Users :
        /\ IsSuffix(History(u), appended[u])
        /\ Len(History(u)) >= Smaller(Len(appended[u]), MAX_TURNS)

\* C12: every mutation of a user's history is one atomic unit (the append of
\* a turn with its cut, or a clear); no turn of two messages of one user is
\* lost and the result is that of the appends and clears in sequence.
C12_AtomicMutations == [][C12_Step]_vars /\ []C12_NothingLost

C12_Witness ==
    /\ pc = "in_flight"
    /\ Len(before) >= 1
    /\ before[Len(before)] = Asked
    /\ LET h == History(update.user)
       IN  Len(h) >= 2 /\ h[Len(h) - 1] = Asked /\ h[Len(h)] = Asked

\* C13: an ask makes at most one remote call; a failed attempt is returned
\* to the caller without a second request, whatever the failure.
C13_NoRetries ==
    /\ posts <= 1
    /\ pc = "in_flight" => posts = 1
    /\ Answered => posts = 1 /\ replies = <<answer>>

C13_Witness ==
    /\ Answered
    /\ outcome.raised = "ConnectionError"
    /\ posts = 1

ErrorKinds == {"Timeout", "TransportFailure", "MalformedResponse", "Unknown"}

\* what call_model returned is the model's answer or an error text, and it
\* is the one message standing in the chat for the update
C14_AnswerIsText ==
    Answered =>
        /\ replies = <<answer>>
        /\ \/ SuccessResponse(outcome) /\ answer = outcome.body.choices[1].content
           \/ \E kind \in ErrorKinds : answer = KindText(kind, outcome)

\* C14: call_model turns every failure into a text it returns, and every
\* message that is not the clear signal eventually gets exactly one answer
\* message, the model's answer or an error text, given that the remote call
\* ends and the sends succeed.
C14_EveryQuestionAnswered == []C14_AnswerIsText /\ (pc = "in_flight" ~> Answered)

C14_Witness ==
    /\ Answered
    /\ outcome.raised = "KeyError"
    /\ replies = <<"Error: 'message'">>

AllQuestions == UNION {QuestionsOf(u) : u \in Users}

\* C15: a message with the clear text is routed to clear_conversation and
\* acknowledged: no remote call, no turn appended, the history left empty;
\* every other text handle_message receives is routed to call_model.
C15_ClearRouted ==
    /\ update.text = ClearText =>
          /\ pc = "polling"
          /\ posts = 0
          /\ answer = NoValue
          /\ replies = <<ClearedText>>
          /\ History(update.user) = <<>>
          /\ appended[update.user] = <<>>
    /\ update.text \in AllQuestions =>
          /\ posts = 1
          /\ pc = "in_flight" \/ Answered
          /\ Asked \in {appended[update.user][i] : i \in 1..Len(appended[update.user])}

C15_Witness ==
    /\ update.text = ClearText
    /\ posts = 0
    /\ replies = <<ClearedText>>
    /\ before # <<>>
    /\ History(update.user) = <<>>

\* C16: with the bot token or the API key missing the process stops before
\* the transport polls and before any message is handled.
C16_NoCredentialNoPolling ==
    /\ (pc \in {"polling", "in_flight"} \/ update.user # 0) => (api_key /\ token)
    /\ ~api_key => pc \in {"import", "crashed"}
    /\ (api_key /\ ~token) => pc \in {"import", "main", "exited"}

C16_Witness ==
    /\ pc \in {"crashed", "exited"}
    /\ ~(api_key /\ token)
    /\ update.user = 0

\* C17: a clear is not undone by an earlier ask: a clear is processed only
\* between handlers and leaves the history empty, and every assistant turn
\* stored since the last clear follows the question of its own ask, which
\* was therefore issued after that clear.
C17_ClearNotUndone ==
    /\ update.text = ClearText => (pc = "polling" /\ History(update.user) = <<>>)
    /\ \A u \in Users : \A i \in 1..Len(appended[u]) :
          appended[u][i].role = "assistant" =>
              (i > 1 /\ appended[u][i - 1].role = "user")

C17_Witness ==
    /\ update.text = ClearText
    /\ Len(before) >= 2
    /\ before[Len(before)].role = "assistant"
    /\ History(update.user) = <<>>

\* C18: a stored history has at most MAX_TURNS + 1 turns, it has at most
\* MAX_TURNS when the request is built, and the request has at most
\* MAX_TURNS + 1 messages with the system turn.
C18_LengthAtMostEleven ==
    /\ \A u \in Users : Len(History(u)) <= MAX_TURNS + 1
    /\ pc = "in_flight" =>
          /\ Len(History(update.user)) <= MAX_TURNS
          /\ Len(request.messages) <= MAX_TURNS + 1

C18_Witness ==
    /\ Answered
    /\ Len(History(update.user)) = MAX_TURNS + 1

\* C19: an assistant turn that is not the first element of a history comes
\* right after a user turn; two assistant turns are never adjacent.
C19_AssistantFollowsUser ==
    \A u \in Users : \A i \in 2..Len(History(u)) :
        History(u)[i].role = "assistant" => History(u)[i - 1].role = "user"

C19_Witness ==
    \E u \in Users :
        /\ Len(History(u)) = MAX_TURNS
        /\ History(u)[1].role = "assistant"
        /\ History(u)[2].role = "user"

====
